---- MODULE Spec2Model ----
(***************************************************************************)
(* tile_processor.worker.                                                  *)
(*                                                                         *)
(* Spec, SpecFair: one call of a Worker's execute (or of run_subprocess,   *)
(* or of ThreedfierWorker.create_yaml) followed statement by statement,    *)
(* with the external process, the output directory and the library calls   *)
(* that can raise as the environment.                                      *)
(* SpecTiles: executions of the 3dfier workers for distinct tiles sharing  *)
(* one output directory, interleaved by an outside scheduler.              *)
(* SpecFactory: WorkerFactory.register_worker and WorkerFactory.create.    *)
(* SpecPipes: run_subprocess with the process writing to pipes of bounded  *)
(* capacity, which Spec leaves out: there the process ends with its output *)
(* written whatever its size.                                              *)
(* SpecDBTiles: the tile selection of tileconfig.DBTiles, whose code is    *)
(* not among the sources; it is modelled from its specification and from   *)
(* the calls made in tests/test_tiles.py.                                  *)
(*                                                                         *)
(* Text is a sequence of code points; the bytes a process writes are a     *)
(* sequence of byte values.  Python's None is the string "None".           *)
(* Asynchronous interrupts (signals delivered while the runner sleeps)     *)
(* are not modelled.                                                       *)
(***************************************************************************)
EXTENDS Integers, Sequences, FiniteSets, TLC

VARIABLES
    entry,        \* the callable the caller invoked
    ahn_paths,    \* tiles.elevation_file_index[tile]: sequence of <<path, version>>
    output,       \* tiles.output: [dir |-> is not None, db |-> is not None]
    arg_doexec,   \* doexec argument given by the caller
    arg_shell,    \* shell argument given by the caller
    monitor,      \* monitor_log is not None
    pc,           \* position in the code
    yml,          \* <<>>, or <<the job configuration>> once create_yaml or
                  \* create_configuration has built it
    fs,           \* files present in the output directory
    shell,        \* run_subprocess: shell
    doexec,       \* run_subprocess: doexec
    proc,         \* the external process: "none", "running", "exited"
    exit_code,    \* the exit code of the process once it exited
    pipe_err,     \* bytes the process wrote to stderr
    pipe_out,     \* bytes the process wrote to stdout
    return_code,  \* run_subprocess: return_code (result of popen.poll())
    err,          \* run_subprocess: err (decoded stderr)
    out,          \* run_subprocess: out (decoded stdout)
    success,      \* what run_subprocess returned ("None" while it has not)
    rs_exc,       \* exception that left run_subprocess ("None" if none)
    result,       \* what the entry returned ("None" while it has not)
    raised,       \* exception that left the entry ("None" if none)
    spawned,      \* number of processes Popen started
    cycles,       \* number of completed passes of the polling loop
    records,      \* number of records written to monitor_log
    write_failed, \* open/yaml.dump raised
    remove_failed,\* os.remove raised
    trace,        \* the steps taken so far, in order
    executors,    \* WorkerFactory._executors
    created,      \* what the last call of the factory gave (create: the
                  \* instance or the exception; register_worker: nothing)
    runs,         \* SpecTiles: per tile, the state of its execute call
    dir,          \* SpecTiles: the shared output directory, <<path, content>>
    index,        \* SpecDBTiles: the rows of the persisted tile index
    dbtiles,      \* SpecDBTiles: the last call made on the DBTiles object
    pending,      \* SpecPipes: the writes the process has still to make, in
                  \* the order of its program, each "out" or "err"
    stdout,       \* SpecPipes: bytes popen.communicate() has read from stdout
    stderr        \* SpecPipes: bytes popen.communicate() has read from stderr

\* What a call of execute, run_subprocess or create_yaml never touches.
selection == <<index, dbtiles>>
wiring == <<executors, created, runs, dir, selection>>
pipes == <<pending, stdout, stderr>>
callargs == <<entry, ahn_paths, output, arg_doexec, arg_shell, monitor, wiring>>
inputs == <<callargs, pipes>>
rsvars == <<shell, doexec, return_code, err, out, success, rs_exc>>
procvars == <<proc, exit_code, pipe_err, pipe_out>>
counters == <<spawned, cycles, records>>
wvars == <<yml, fs, write_failed, remove_failed>>
vars == <<inputs, pc, wvars, rsvars, procvars, result, raised, counters, trace>>

----------------------------------------------------------------------------
\* Bounds of the model.

\* Longest dataset mapping of a tile.
MaxPaths == 2
\* Most passes of the polling loop that find the process still running.
MaxCycles == 2

----------------------------------------------------------------------------
\* Values.

None == "None"
True == "True"
False == "False"

Workers == {"Example", "ExampleDb", "3dfier", "3dfierTIN", "Geoflow", "LoD13"}
YamlWorkers == {"3dfier", "3dfierTIN"}
GeoflowWorkers == {"Geoflow", "LoD13"}
DatasetWorkers == YamlWorkers \cup GeoflowWorkers
Entries == Workers \cup {"run_subprocess", "create_yaml"}

Paths == {"a.laz", "b.laz"}
Versions == {2, 3, 4}
PathPairs == Paths \X Versions

RECURSIVE SeqsUpTo(_, _)
SeqsUpTo(S, n) ==
    IF n = 0 THEN {<<>>}
    ELSE LET shorter == SeqsUpTo(S, n - 1)
         IN shorter \cup {Append(s, x) : s \in {t \in shorter : Len(t) = n - 1}, x \in S}

Mappings == SeqsUpTo(PathPairs, MaxPaths)

Outputs == [dir : BOOLEAN, db : BOOLEAN]

\* Byte strings a process may leave on a pipe.  Bytes below 128 are ASCII,
\* 255 is a byte the locale's encoding cannot decode.
B_error == <<101, 114, 114, 111, 114>>
B_Mixed == <<120, 69, 114, 82, 111, 114, 33>>
B_errror == <<101, 114, 114, 114, 111, 114>>
B_bad == <<111, 107, 255>>
StderrBytes == {<<>>, B_error, B_Mixed, B_errror, B_bad}
StdoutBytes == {<<>>, B_error, B_bad}
ExitCodes == {0, 1}

YmlFile == "tile.yml"

----------------------------------------------------------------------------
\* Text.

\* bytes.decode(getpreferredencoding()): exc is the exception raised ("None"
\* if none), val the text.
decode(bytes) ==
    IF \E i \in 1..Len(bytes) : bytes[i] >= 128
    THEN [exc |-> "UnicodeDecodeError", val |-> <<>>]
    ELSE [exc |-> None, val |-> [i \in 1..Len(bytes) |-> bytes[i]]]

\* str.lower() on ASCII text.
lower(s) == [i \in 1..Len(s) |-> IF s[i] >= 65 /\ s[i] <= 90 THEN s[i] + 32 ELSE s[i]]

\* needle in s
contains(s, needle) ==
    \E i \in 0..(Len(s) - Len(needle)) :
        \A j \in 1..Len(needle) : s[i + j] = needle[j]

\* the literal "error"
error_literal == <<101, 114, 114, 111, 114>>

\* Variant: the exit code alone decides.
classify_wrong(rc, e) == rc # 0
\* Variant: the captured stdout is searched as well.
classify_with_stdout(rc, e) ==
    rc # 0 \/ contains(lower(e), error_literal) \/ contains(lower(out), error_literal)
\* Line 492: popen.returncode != 0 or "error" in err.lower()
classify_failed(rc, e) == rc # 0 \/ contains(lower(e), error_literal)

----------------------------------------------------------------------------
\* Building the job configuration.

\* Python's str + x, x given with its type: defined for a str operand only.
str_add(prefix, x) ==
    IF x.type = "str" THEN [exc |-> None, val |-> <<x.value>>]
    ELSE [exc |-> "TypeError", val |-> <<>>]

\* An element of the dataset mapping is a (path, version) tuple (lines 115,
\* 119, 246 and 426 unpack or index it).
mapping_entry(paths, i) == [type |-> "tuple", value |-> paths[i]]

\* Lines 113-118 and 244-249: the items of the elevation dataset list.
ahn_file(paths) ==
    IF Len(paths) > 1
    THEN [exc |-> None, val |-> [i \in 1..Len(paths) |-> paths[i][1]]]
    ELSE IF Len(paths) = 0
         THEN [exc |-> "IndexError", val |-> <<>>]
         ELSE str_add("- ", mapping_entry(paths, 1))

\* Line 119: set([version for path, version in ahn_paths])
ahn_version(paths) == {paths[i][2] : i \in 1..Len(paths)}

\* Lines 143-150, the value as line 165 formats it into the template.
las_building(version) ==
    IF version = {2} THEN "[1]"
    ELSE IF version = {3} THEN "[6]"
    ELSE IF version = {2, 3} THEN "[1, 6]"
    ELSE None

\* ThreedfierWorker.create_yaml
ThreedfierWorker_create_yaml(paths) ==
    LET f == ahn_file(paths) IN
    IF f.exc # None THEN [exc |-> f.exc, val |-> None]
    ELSE [exc |-> None,
          val |-> [lifting |-> "Building",
                   use_LAS_classes |-> las_building(ahn_version(paths)),
                   datasets |-> f.val]]

\* ThreedfierTINWorker.create_yaml
ThreedfierTINWorker_create_yaml(paths) ==
    LET f == ahn_file(paths) IN
    IF f.exc # None THEN [exc |-> f.exc, val |-> None]
    ELSE [exc |-> None,
          val |-> [lifting |-> "Terrain",
                   use_LAS_classes |-> "[2]",
                   datasets |-> f.val]]

\* Geoflow.create_configuration: pass
Geoflow_create_configuration(paths, o) == [exc |-> None, val |-> None, len |-> 0]

\* Variant: the database is taken whenever no directory is set.
LoD13Worker_create_configuration_lenient(paths, o) ==
    LET input_las_files == [i \in 1..Len(paths) |-> paths[i][1]]
        c == <<"--INPUT_FOOTPRINT_SOURCE=dsn_in",
               IF o.dir THEN "--OUTPUT_SOURCE=dir/tile.gpkg" ELSE "--OUTPUT_SOURCE=db.dsn",
               IF o.dir THEN "--OUTPUT_FORMAT=GPKG" ELSE "--OUTPUT_FORMAT=PostgreSQL",
               "--OUTPUT_LAYER_PREFIX=tile_", "--INPUT_LAS_FILES=">> \o input_las_files
    IN  [exc |-> None, val |-> c, len |-> Len(c)]

\* LoD13Worker.create_configuration
LoD13Worker_create_configuration(paths, o) ==
    LET input_las_files == [i \in 1..Len(paths) |-> paths[i][1]]
        flags(dsn_out, format_out) ==
            <<"--INPUT_FOOTPRINT_SOURCE=dsn_in", dsn_out, format_out,
              "--OUTPUT_LAYER_PREFIX=tile_", "--INPUT_LAS_FILES=">>
        done(c) == [exc |-> None, val |-> c, len |-> Len(c)]
    IN  IF o.dir
        THEN done(flags("--OUTPUT_SOURCE=dir/tile.gpkg", "--OUTPUT_FORMAT=GPKG")
                  \o input_las_files)
        ELSE IF o.db
             THEN done(flags("--OUTPUT_SOURCE=db.dsn", "--OUTPUT_FORMAT=PostgreSQL")
                       \o input_las_files)
             ELSE [exc |-> "ValueError", val |-> None, len |-> 0]

\* Variant: the mapping is never found empty.
no_elevation_files_unchecked(paths) == FALSE
\* Lines 199, 319, 387: len(tiles.elevation_file_index[tile]) == 0
no_elevation_files(paths) == Len(paths) = 0

----------------------------------------------------------------------------
\* No call has been made on the DBTiles object.
NotConfigured ==
    [call |-> None, extent |-> <<>>, tiles |-> <<>>, geom |-> <<>>,
     exc |-> None, to_process |-> <<>>, returned |-> <<>>, queries |-> 0]

\* No call of the factory has returned anything.
NotCalled == [key |-> None, exc |-> None, val |-> None]

\* Lines 507-512: the registrations made when the module is loaded, key to
\* class.
Registered ==
    [k \in {"Example", "ExampleDb", "3dfier", "3dfierTIN", "LoD13"} |->
        CASE k = "Example" -> "ExampleWorker"
          [] k = "ExampleDb" -> "ExampleDbWorker"
          [] k = "3dfier" -> "ThreedfierWorker"
          [] k = "3dfierTIN" -> "ThreedfierTINWorker"
          [] k = "LoD13" -> "LoD13Worker"]

\* The state after construction: the caller has chosen what to call and with
\* what; nothing has run.

Init ==
    /\ entry \in Entries
    /\ ahn_paths \in IF entry \in DatasetWorkers \cup {"create_yaml"}
                     THEN Mappings ELSE {<<>>}
    /\ output \in IF entry \in YamlWorkers \cup {"LoD13"}
                  THEN Outputs ELSE {[dir |-> TRUE, db |-> FALSE]}
    /\ arg_doexec \in IF entry \in GeoflowWorkers \cup {"run_subprocess"}
                      THEN BOOLEAN ELSE {TRUE}
    /\ arg_shell \in IF entry = "run_subprocess" THEN BOOLEAN ELSE {FALSE}
    /\ monitor \in IF entry = "create_yaml" THEN {FALSE} ELSE BOOLEAN
    /\ pc = "start"
    /\ yml = <<>>
    /\ fs = {}
    /\ shell = FALSE
    /\ doexec = TRUE
    /\ proc = "none"
    /\ exit_code = 0
    /\ pipe_err = <<>>
    /\ pipe_out = <<>>
    /\ pending = <<>>
    /\ stdout = <<>>
    /\ stderr = <<>>
    /\ return_code = <<>>
    /\ err = <<>>
    /\ out = <<>>
    /\ success = None
    /\ rs_exc = None
    /\ result = None
    /\ raised = None
    /\ spawned = 0
    /\ cycles = 0
    /\ records = 0
    /\ write_failed = FALSE
    /\ remove_failed = FALSE
    /\ trace = <<>>
    /\ executors = Registered
    /\ created = NotCalled
    /\ runs = <<>>
    /\ dir = {}
    /\ index = <<>>
    /\ dbtiles = NotConfigured

----------------------------------------------------------------------------
\* run_subprocess, lines 447-504.

\* The call itself: the arguments are bound and control enters line 470.
call_run_subprocess(sh, de) ==
    /\ shell' = sh
    /\ doexec' = de
    /\ pc' = "rs_doexec"
    /\ UNCHANGED <<return_code, err, out, success, rs_exc>>

\* Variant: doexec is not looked at.
run_subprocess_doexec_ignored ==
    /\ pc = "rs_doexec"
    /\ pc' = "rs_popen"
    /\ UNCHANGED <<inputs, wvars, rsvars, procvars, result, raised, counters, trace>>

\* Line 470, and lines 502-504 when execution is disabled.
run_subprocess_doexec ==
    /\ pc = "rs_doexec"
    /\ IF doexec
       THEN /\ pc' = "rs_popen"
            /\ UNCHANGED success
       ELSE /\ pc' = "rs_exit"
            /\ success' = True
    /\ UNCHANGED <<inputs, wvars, shell, doexec, return_code, err, out, rs_exc,
                   procvars, result, raised, counters, trace>>

\* Lines 471-476: Popen starts the process, or raises.
run_subprocess_popen ==
    /\ pc = "rs_popen"
    /\ \/ /\ proc' = "running"
          /\ spawned' = spawned + 1
          /\ pc' = IF monitor THEN "rs_sleep" ELSE "rs_communicate"
          /\ trace' = Append(trace, "spawn")
          /\ UNCHANGED rs_exc
       \/ /\ rs_exc' = "OSError"
          /\ pc' = "rs_exit"
          /\ UNCHANGED <<proc, spawned, trace>>
    /\ UNCHANGED <<inputs, wvars, shell, doexec, return_code, err, out, success,
                   exit_code, pipe_err, pipe_out, result, raised, cycles, records>>

\* Line 478: sleep(monitor_interval)
run_subprocess_sleep ==
    /\ pc = "rs_sleep"
    /\ pc' = "rs_sample"
    /\ UNCHANGED <<inputs, wvars, rsvars, procvars, result, raised, counters, trace>>

\* Lines 479-482: one record to monitor_log.
run_subprocess_sample ==
    /\ pc = "rs_sample"
    /\ records' = records + 1
    /\ pc' = "rs_poll"
    /\ UNCHANGED <<inputs, wvars, rsvars, procvars, result, raised, spawned,
                   cycles, trace>>

\* Variant: the loop is left after its first pass.
loop_exit_always(rc) == TRUE
\* Line 484: return_code is not None
loop_exit(rc) == rc # <<>>

\* Lines 483-485: popen.poll(), and the break.
run_subprocess_poll ==
    /\ pc = "rs_poll"
    /\ proc = "running" => cycles < MaxCycles
    /\ return_code' = IF proc = "exited" THEN <<exit_code>> ELSE <<>>
    /\ cycles' = cycles + 1
    /\ pc' = IF loop_exit(return_code') THEN "rs_communicate" ELSE "rs_sleep"
    /\ UNCHANGED <<inputs, wvars, shell, doexec, err, out, success, rs_exc,
                   procvars, result, raised, spawned, records, trace>>

\* Variant: the pipes are read without waiting for the process.
run_subprocess_communicate_nowait ==
    /\ pc = "rs_communicate"
    /\ pc' = "rs_decode"
    /\ trace' = Append(trace, "communicate")
    /\ UNCHANGED <<inputs, wvars, rsvars, procvars, result, raised, counters>>

\* Line 486: popen.communicate() returns once the process has exited.
run_subprocess_communicate ==
    /\ pc = "rs_communicate"
    /\ proc = "exited"
    /\ pc' = "rs_decode"
    /\ trace' = Append(trace, "communicate")
    /\ UNCHANGED <<inputs, wvars, rsvars, procvars, result, raised, counters>>

\* Lines 487-489: decode stderr, then stdout.
run_subprocess_decode ==
    /\ pc = "rs_decode"
    /\ LET e == decode(pipe_err)
           o == decode(pipe_out)
       IN  IF e.exc # None
           THEN rs_exc' = e.exc /\ pc' = "rs_exit" /\ UNCHANGED <<err, out>>
           ELSE IF o.exc # None
                THEN rs_exc' = o.exc /\ pc' = "rs_exit" /\ err' = e.val
                     /\ UNCHANGED out
                ELSE err' = e.val /\ out' = o.val /\ pc' = "rs_classify"
                     /\ UNCHANGED rs_exc
    /\ UNCHANGED <<inputs, wvars, shell, doexec, return_code, success, procvars,
                   result, raised, counters, trace>>

\* Lines 490-501: the outcome.
run_subprocess_classify ==
    /\ pc = "rs_classify"
    /\ success' = IF classify_failed(exit_code, err) THEN False ELSE True
    /\ pc' = "rs_exit"
    /\ trace' = Append(trace, "classify")
    /\ UNCHANGED <<inputs, wvars, shell, doexec, return_code, err, out, rs_exc,
                   procvars, result, raised, counters>>

\* The external process ends, leaving an exit code and its output.
process_exit ==
    /\ proc = "running"
    /\ proc' = "exited"
    /\ exit_code' \in ExitCodes
    /\ pipe_err' \in StderrBytes
    /\ pipe_out' \in StdoutBytes
    /\ trace' = Append(trace, "exit")
    /\ UNCHANGED <<inputs, pc, wvars, rsvars, result, raised, counters>>

\* run_subprocess called by the caller itself.
run_subprocess_call ==
    /\ pc = "start"
    /\ entry = "run_subprocess"
    /\ call_run_subprocess(arg_shell, arg_doexec)
    /\ UNCHANGED <<inputs, wvars, procvars, result, raised, counters, trace>>

\* What a caller without a try block sees of run_subprocess: its value or
\* its exception.
plain_return ==
    /\ pc = "rs_exit"
    /\ pc' = "done"
    /\ IF rs_exc # None
       THEN raised' = rs_exc /\ UNCHANGED result
       ELSE result' = success /\ UNCHANGED raised
    /\ trace' = Append(trace, "return")
    /\ UNCHANGED <<inputs, wvars, rsvars, procvars, counters>>

run_subprocess_return ==
    /\ entry = "run_subprocess"
    /\ plain_return

----------------------------------------------------------------------------
\* ExampleWorker and ExampleDbWorker.

\* ExampleWorker.execute, lines 72-81.
ExampleWorker_execute ==
    /\ pc = "start"
    /\ entry = "Example"
    /\ call_run_subprocess(FALSE, TRUE)
    /\ UNCHANGED <<inputs, wvars, procvars, result, raised, counters, trace>>

\* ExampleWorker.execute, line 82.
ExampleWorker_return ==
    /\ entry = "Example"
    /\ plain_return

\* ExampleDbWorker.execute, lines 95-104.
ExampleDbWorker_execute ==
    /\ pc = "start"
    /\ entry = "ExampleDb"
    /\ call_run_subprocess(FALSE, TRUE)
    /\ UNCHANGED <<inputs, wvars, procvars, result, raised, counters, trace>>

\* ExampleDbWorker.execute, line 105.
ExampleDbWorker_return ==
    /\ entry = "ExampleDb"
    /\ plain_return

----------------------------------------------------------------------------
\* ThreedfierWorker.execute and ThreedfierTINWorker.execute.  The two
\* methods have the same statements from the dataset check on; the steps
\* are written once, with the worker as a parameter.

\* Lines 199-202 / 319-322: the dataset check.
dataset_check(w) ==
    /\ pc = "start"
    /\ entry = w
    /\ IF no_elevation_files(ahn_paths)
       THEN /\ result' = False
            /\ pc' = "done"
            /\ trace' = trace \o <<"check", "return">>
       ELSE /\ pc' = "configure"
            /\ trace' = Append(trace, "check")
            /\ UNCHANGED result
    /\ UNCHANGED <<inputs, wvars, rsvars, procvars, raised, counters>>

\* Lines 203-205 / 323-328: create_yaml, whose exception leaves execute.
build_yaml(w, y) ==
    /\ pc = "configure"
    /\ entry = w
    /\ IF y.exc # None
       THEN /\ raised' = y.exc
            /\ pc' = "done"
            /\ UNCHANGED yml
       ELSE /\ yml' = <<y.val>>
            /\ pc' = "yml_path"
            /\ UNCHANGED raised
    /\ trace' = Append(trace, "config")
    /\ UNCHANGED <<inputs, fs, write_failed, remove_failed, rsvars, procvars,
                   result, counters>>

\* Line 206 / 329: tiles.output.dir.join_path(...), outside any try block.
yml_path(w) ==
    /\ pc = "yml_path"
    /\ entry = w
    /\ IF output.dir
       THEN pc' = "write" /\ UNCHANGED raised
       ELSE pc' = "done" /\ raised' = "AttributeError"
    /\ UNCHANGED <<inputs, wvars, rsvars, procvars, result, counters, trace>>

\* Variant: a failed write leaves execute as an exception.
write_yaml_propagates(w) ==
    /\ pc = "write"
    /\ entry = w
    /\ \/ /\ fs' = fs \cup {YmlFile}
          /\ pc' = "run"
          /\ UNCHANGED <<write_failed, raised>>
       \/ /\ write_failed' = TRUE
          /\ fs' \in {fs, fs \cup {YmlFile}}
          /\ raised' = "OSError"
          /\ pc' = "done"
    /\ trace' = Append(trace, "write")
    /\ UNCHANGED <<inputs, yml, remove_failed, rsvars, procvars, result, counters>>

\* Lines 207-211 / 331-335: open and yaml.dump inside try/except BaseException.
\* A failed write leaves no file (open raised) or a partial one (dump raised).
write_yaml(w) ==
    /\ pc = "write"
    /\ entry = w
    /\ \/ /\ fs' = fs \cup {YmlFile}
          /\ UNCHANGED write_failed
       \/ /\ write_failed' = TRUE
          /\ fs' \in {fs, fs \cup {YmlFile}}
    /\ pc' = "run"
    /\ trace' = Append(trace, "write")
    /\ UNCHANGED <<inputs, yml, remove_failed, rsvars, procvars, result, raised,
                   counters>>

\* Lines 213-229 / 337-347: the command, and the call of run_subprocess.
run_command(w) ==
    /\ pc = "run"
    /\ entry = w
    /\ call_run_subprocess(TRUE, TRUE)
    /\ UNCHANGED <<inputs, wvars, procvars, result, raised, counters, trace>>

\* Lines 230-233 / 348-351: return success, or False when run_subprocess raised.
execute_result(exc, s) == IF exc # None THEN False ELSE s

\* Variant: a failed run is started once more.
try_return_retry(w) ==
    /\ pc = "rs_exit"
    /\ entry = w
    /\ IF execute_result(rs_exc, success) = False /\ spawned = 1
       THEN pc' = "run" /\ UNCHANGED result
       ELSE pc' = "finally" /\ result' = execute_result(rs_exc, success)
    /\ UNCHANGED <<inputs, wvars, rsvars, procvars, raised, counters, trace>>

\* Lines 230-233 / 348-351: the value is set, the finally block is still to run.
try_return(w) ==
    /\ pc = "rs_exit"
    /\ entry = w
    /\ result' = execute_result(rs_exc, success)
    /\ pc' = "finally"
    /\ UNCHANGED <<inputs, wvars, rsvars, procvars, raised, counters, trace>>

\* Variant: the file is removed after a successful run only.
finally_remove_on_success(w) ==
    /\ pc = "finally"
    /\ entry = w
    /\ IF YmlFile \in fs /\ result = True
       THEN \/ fs' = fs \ {YmlFile} /\ UNCHANGED remove_failed
            \/ remove_failed' = TRUE /\ UNCHANGED fs
       ELSE UNCHANGED <<fs, remove_failed>>
    /\ pc' = "done"
    /\ trace' = trace \o <<"cleanup", "return">>
    /\ UNCHANGED <<inputs, yml, write_failed, rsvars, procvars, result, raised,
                   counters>>

\* Lines 234-238 / 352-356: os.remove inside try/except Exception, then the
\* return.  os.remove raises when the file is not there, and may raise when
\* it is, leaving it.
finally_remove(w) ==
    /\ pc = "finally"
    /\ entry = w
    /\ IF YmlFile \in fs
       THEN \/ fs' = fs \ {YmlFile} /\ UNCHANGED remove_failed
            \/ remove_failed' = TRUE /\ UNCHANGED fs
       ELSE remove_failed' = TRUE /\ UNCHANGED fs
    /\ pc' = "done"
    /\ trace' = trace \o <<"cleanup", "return">>
    /\ UNCHANGED <<inputs, yml, write_failed, rsvars, procvars, result, raised,
                   counters>>

ThreedfierWorker_execute_check == dataset_check("3dfier")
ThreedfierWorker_execute_create_yaml ==
    build_yaml("3dfier", ThreedfierWorker_create_yaml(ahn_paths))
ThreedfierWorker_execute_yml_path == yml_path("3dfier")
ThreedfierWorker_execute_write == write_yaml("3dfier")
ThreedfierWorker_execute_run == run_command("3dfier")
ThreedfierWorker_execute_return == try_return("3dfier")
ThreedfierWorker_execute_finally == finally_remove("3dfier")

ThreedfierTINWorker_execute_check == dataset_check("3dfierTIN")
ThreedfierTINWorker_execute_create_yaml ==
    build_yaml("3dfierTIN", ThreedfierTINWorker_create_yaml(ahn_paths))
ThreedfierTINWorker_execute_yml_path == yml_path("3dfierTIN")
ThreedfierTINWorker_execute_write == write_yaml("3dfierTIN")
ThreedfierTINWorker_execute_run == run_command("3dfierTIN")
ThreedfierTINWorker_execute_return == try_return("3dfierTIN")
ThreedfierTINWorker_execute_finally == finally_remove("3dfierTIN")

\* ThreedfierWorker.create_yaml called by the caller itself.
ThreedfierWorker_create_yaml_call ==
    /\ pc = "start"
    /\ entry = "create_yaml"
    /\ LET y == ThreedfierWorker_create_yaml(ahn_paths)
       IN  IF y.exc # None
           THEN raised' = y.exc /\ UNCHANGED yml
           ELSE yml' = <<y.val>> /\ UNCHANGED raised
    /\ pc' = "done"
    /\ trace' = trace \o <<"config", "return">>
    /\ UNCHANGED <<inputs, fs, write_failed, remove_failed, rsvars, procvars,
                   result, counters>>

----------------------------------------------------------------------------
\* Geoflow.execute, inherited by LoD13Worker.

\* Lines 386-389.
Geoflow_execute_check ==
    /\ pc = "start"
    /\ entry \in GeoflowWorkers
    /\ IF no_elevation_files(ahn_paths)
       THEN /\ result' = False
            /\ pc' = "done"
            /\ trace' = trace \o <<"check", "return">>
       ELSE /\ pc' = "configure"
            /\ trace' = Append(trace, "check")
            /\ UNCHANGED result
    /\ UNCHANGED <<inputs, wvars, rsvars, procvars, raised, counters>>

\* Lines 390-401 and 408-409: create_configuration (outside any try block),
\* then the command and the call of run_subprocess, or return False.
Geoflow_execute_configure ==
    /\ pc = "configure"
    /\ entry \in GeoflowWorkers
    /\ LET config == IF entry = "LoD13"
                     THEN LoD13Worker_create_configuration(ahn_paths, output)
                     ELSE Geoflow_create_configuration(ahn_paths, output)
       IN  IF config.exc # None
           THEN /\ raised' = config.exc
                /\ pc' = "done"
                /\ trace' = Append(trace, "config")
                /\ UNCHANGED <<yml, result, rsvars>>
           ELSE IF config.len > 0
                THEN /\ yml' = <<config.val>>
                     /\ call_run_subprocess(FALSE, arg_doexec)
                     /\ trace' = Append(trace, "config")
                     /\ UNCHANGED <<result, raised>>
                ELSE /\ result' = False
                     /\ pc' = "done"
                     /\ trace' = trace \o <<"config", "return">>
                     /\ UNCHANGED <<yml, raised, rsvars>>
    /\ UNCHANGED <<inputs, fs, write_failed, remove_failed, procvars, counters>>

\* Lines 402-407.
Geoflow_execute_return ==
    /\ pc = "rs_exit"
    /\ entry \in GeoflowWorkers
    /\ result' = execute_result(rs_exc, success)
    /\ pc' = "done"
    /\ trace' = Append(trace, "return")
    /\ UNCHANGED <<inputs, wvars, rsvars, procvars, raised, counters>>

----------------------------------------------------------------------------

Next ==
    \/ ExampleWorker_execute
    \/ ExampleWorker_return
    \/ ExampleDbWorker_execute
    \/ ExampleDbWorker_return
    \/ ThreedfierWorker_execute_check
    \/ ThreedfierWorker_execute_create_yaml
    \/ ThreedfierWorker_execute_yml_path
    \/ ThreedfierWorker_execute_write
    \/ ThreedfierWorker_execute_run
    \/ ThreedfierWorker_execute_return
    \/ ThreedfierWorker_execute_finally
    \/ ThreedfierTINWorker_execute_check
    \/ ThreedfierTINWorker_execute_create_yaml
    \/ ThreedfierTINWorker_execute_yml_path
    \/ ThreedfierTINWorker_execute_write
    \/ ThreedfierTINWorker_execute_run
    \/ ThreedfierTINWorker_execute_return
    \/ ThreedfierTINWorker_execute_finally
    \/ ThreedfierWorker_create_yaml_call
    \/ Geoflow_execute_check
    \/ Geoflow_execute_configure
    \/ Geoflow_execute_return
    \/ run_subprocess_call
    \/ run_subprocess_doexec
    \/ run_subprocess_popen
    \/ run_subprocess_sleep
    \/ run_subprocess_sample
    \/ run_subprocess_poll
    \/ run_subprocess_communicate
    \/ run_subprocess_decode
    \/ run_subprocess_classify
    \/ run_subprocess_return
    \/ process_exit

Spec == Init /\ [][Next]_vars

----------------------------------------------------------------------------
\* Properties.

Has(e) == \E i \in 1..Len(trace) : trace[i] = e
\* Where e first happened (0: it has not).
Pos(e) == IF Has(e) THEN CHOOSE i \in 1..Len(trace) :
                            trace[i] = e /\ \A j \in 1..(i - 1) : trace[j] # e
          ELSE 0

\* run_subprocess ran with execution enabled and returned a value.
Classified == doexec /\ pc \in {"rs_exit", "finally", "done"} /\ success # None

\* The captured stderr text holds e-r-r-o-r, each letter in either case.
ErrorInAnyCase ==
    \E i \in 0..(Len(err) - 5) :
        \A j \in 1..5 : err[i + j] \in {error_literal[j], error_literal[j] - 32}

\* C1: with execution enabled, run_subprocess returns False exactly when the
\* exit code is non-zero or stderr holds "error" in any letter case, and
\* True for every other termination.
C1_FailureIffExitCodeOrStderrError ==
    Classified =>
        /\ success \in {True, False}
        /\ success = False <=> (exit_code # 0 \/ ErrorInAnyCase)

C1_Witness ==
    /\ Classified
    /\ exit_code = 0
    /\ pipe_err = B_Mixed
    /\ success = False

\* C2: execute of a worker that needs datasets, on a tile whose mapping is
\* empty, returns False and never spawns a process.
C2_NoDatasetsReturnsFalseWithoutProcess ==
    (entry \in DatasetWorkers /\ Len(ahn_paths) = 0) =>
        /\ spawned = 0
        /\ proc = "none"
        /\ raised = None
        /\ pc \in {"start", "done"}
        /\ pc = "done" => result = False

C2_Witness ==
    /\ entry = "3dfierTIN"
    /\ Len(ahn_paths) = 0
    /\ pc = "done"
    /\ result = False

\* C3 as claimed: after ThreedfierWorker.execute or ThreedfierTINWorker.execute
\* returns, the <tile>.yml it wrote is absent, on every exit path.
C3_ArtifactAbsentAfterExecute ==
    (entry \in YamlWorkers /\ pc = "done") => YmlFile \notin fs

\* C3 as amended: after execute returns past the write, os.remove has been
\* attempted, and the <tile>.yml is absent unless that os.remove raised.
C3_ArtifactAbsentUnlessRemoveFailed ==
    (entry \in YamlWorkers /\ pc = "done") =>
        /\ Has("write") => Has("cleanup")
        /\ YmlFile \in fs => remove_failed

C3_Witness ==
    /\ entry = "3dfier"
    /\ pc = "done"
    /\ Has("write")
    /\ ~write_failed
    /\ rs_exc = "UnicodeDecodeError"
    /\ ~remove_failed
    /\ YmlFile \notin fs

\* C4: with a monitor and execution enabled, every pass of the loop sleeps,
\* writes one record and polls; the loop is left only after a poll that saw
\* the process exited, and the records written equal the passes made (>= 1).
C4_PollingUntilExit ==
    (monitor /\ doexec /\ spawned > 0) =>
        /\ pc \in {"rs_sleep", "rs_sample"} => records = cycles
        /\ pc = "rs_poll" => records = cycles + 1
        /\ (pc = "rs_sleep" /\ cycles > 0) => return_code = <<>>
        /\ pc \notin {"rs_sleep", "rs_sample", "rs_poll"} =>
               /\ return_code = <<exit_code>>
               /\ proc = "exited"
               /\ records = cycles
               /\ cycles >= 1

C4_Witness ==
    /\ monitor
    /\ doexec
    /\ pc = "rs_classify"
    /\ cycles = 2
    /\ records = 2

\* C5: with execution disabled run_subprocess spawns nothing, writes no
\* monitoring record and returns True, whatever the shell mode and monitor.
C5_DryRunNeverSpawns ==
    ~doexec =>
        /\ spawned = 0
        /\ proc = "none"
        /\ records = 0
        /\ rs_exc = None
        /\ pc \in {"rs_doexec", "rs_exit", "done"}
        /\ pc \in {"rs_exit", "done"} => success = True
        /\ pc = "done" => result = True /\ raised = None

C5_Witness ==
    /\ entry = "run_subprocess"
    /\ ~doexec
    /\ shell
    /\ monitor
    /\ pc = "done"
    /\ result = True

\* C6: within one execute the dataset check is the first step, the write of
\* the artifact precedes the spawn, the process has exited before cleanup
\* starts, and cleanup runs before execute returns whenever the write step
\* was reached, whatever the outcome.
C6_StepsInOrder ==
    /\ (entry \in DatasetWorkers /\ trace # <<>>) => trace[1] = "check"
    /\ entry \in YamlWorkers =>
        /\ Has("spawn") => (Has("write") /\ Pos("write") < Pos("spawn"))
        /\ pc = "finally" => proc # "running"
        /\ (Has("cleanup") /\ Has("spawn")) =>
               (Pos("spawn") < Pos("exit") /\ Pos("exit") < Pos("cleanup"))
        /\ (pc = "done" /\ Has("write")) =>
               (Has("cleanup") /\ Pos("cleanup") < Pos("return"))
        /\ Has("cleanup") => Has("write")

C6_Witness ==
    /\ entry = "3dfier"
    /\ pc = "done"
    /\ result = False
    /\ trace = <<"check", "config", "write", "spawn", "exit", "communicate",
                 "classify", "cleanup", "return">>

\* Exceptions that report a configuration error: the unknown output target
\* of line 435, and the attribute lookup on an output directory left unset.
ConfigurationErrors == {"ValueError", "AttributeError"}

\* C7 as claimed: execute of every registered worker raises only for
\* configuration errors; everything else ends in a boolean result.
C7_OnlyConfigurationErrorsRaised ==
    (entry \in Workers \ {"Geoflow"} /\ pc = "done") =>
        \/ raised = None /\ result \in {True, False}
        \/ raised \in ConfigurationErrors

\* The classification codes per version set, as line 165 formats them.
C8_Expected(version) ==
    CASE version = {2} -> "[1]"
      [] version = {3} -> "[6]"
      [] version = {2, 3} -> "[1, 6]"
      [] OTHER -> None

\* C8 as claimed: ThreedfierWorker.create_yaml returns for every version
\* set, the empty one included, with the classification codes of the table.
C8_ClassificationFromVersions ==
    (entry = "create_yaml" /\ pc = "done") =>
        /\ raised = None
        /\ yml[1].use_LAS_classes = C8_Expected(ahn_version(ahn_paths))

\* C9: when the write of the artifact or its removal failed, execute raises
\* nothing and returns what run_subprocess returned (False if it raised).
C9_WriteAndCleanupFailuresDoNotChangeResult ==
    (entry \in YamlWorkers /\ pc = "done" /\ (write_failed \/ remove_failed)) =>
        /\ raised = None
        /\ rs_exc = None => (success \in {True, False} /\ result = success)
        /\ rs_exc # None => result = False

C9_Witness ==
    /\ entry = "3dfierTIN"
    /\ pc = "done"
    /\ write_failed
    /\ remove_failed
    /\ result = True

UsesOutput == YamlWorkers \cup {"LoD13"}
NoOutput == ~output.dir /\ ~output.db

\* C10 as claimed: with neither a directory nor a database set, execute
\* raises instead of returning a boolean or spawning a process.
C10_NoOutputRaises ==
    (entry \in UsesOutput /\ NoOutput /\ pc = "done") =>
        /\ raised # None
        /\ result = None
        /\ spawned = 0

\* C10 as amended: LoD13Worker takes the directory when one is set and the
\* database otherwise; with neither set no worker spawns a process, execute
\* on a tile with at least one dataset raises (ValueError from LoD13Worker)
\* and returns no boolean, and on a tile with none it returns False.
C10_OutputSelection ==
    /\ (entry = "LoD13" /\ Has("config") /\ raised = None) =>
           /\ output.dir \/ output.db
           /\ yml[1][2] = (IF output.dir THEN "--OUTPUT_SOURCE=dir/tile.gpkg"
                        ELSE "--OUTPUT_SOURCE=db.dsn")
           /\ yml[1][3] = (IF output.dir THEN "--OUTPUT_FORMAT=GPKG"
                        ELSE "--OUTPUT_FORMAT=PostgreSQL")
    /\ (entry \in UsesOutput /\ NoOutput) =>
           /\ spawned = 0
           /\ (pc = "done" /\ Len(ahn_paths) > 0) =>
                  /\ raised # None
                  /\ result = None
                  /\ entry = "LoD13" => raised = "ValueError"
           /\ (pc = "done" /\ Len(ahn_paths) = 0) =>
                  (raised = None /\ result = False)

C10_Witness ==
    /\ entry = "LoD13"
    /\ NoOutput
    /\ Len(ahn_paths) = 2
    /\ pc = "done"
    /\ raised = "ValueError"
    /\ spawned = 0

\* The captured stdout text holds e-r-r-o-r, each letter in either case.
StdoutErrorInAnyCase ==
    \E i \in 0..(Len(out) - 5) :
        \A j \in 1..5 : out[i + j] \in {error_literal[j], error_literal[j] - 32}

\* C11 as claimed: exit code 0 with an error on stdout and a clean stderr is
\* a failure.
C11_StdoutErrorFails ==
    (Classified /\ exit_code = 0 /\ StdoutErrorInAnyCase /\ ~ErrorInAnyCase) =>
        success = False

\* C11 as amended: stdout is decoded and logged but not searched; exit code 0
\* with an error on stdout and a clean stderr is a success.
C11_StdoutIsNotSearched ==
    (Classified /\ exit_code = 0 /\ StdoutErrorInAnyCase /\ ~ErrorInAnyCase) =>
        success = True

C11_Witness ==
    /\ Classified
    /\ exit_code = 0
    /\ pipe_out = B_error
    /\ pipe_err = <<>>
    /\ success = True

\* C13: one call of execute starts at most one process, whatever the outcome:
\* after a failed process, an exception or a failed cleanup, nothing is
\* started a second time.
C13_AtMostOneProcess ==
    /\ spawned <= 1
    /\ spawned = 1 => Has("spawn")
    /\ (pc = "done" /\ (result = False \/ raised # None \/ remove_failed)) =>
           Cardinality({i \in 1..Len(trace) : trace[i] = "spawn"}) <= 1

C13_Witness ==
    /\ entry = "3dfier"
    /\ pc = "done"
    /\ result = False
    /\ exit_code = 1
    /\ remove_failed
    /\ spawned = 1

\* C19 as claimed: for a mapping of n >= 1 (path, version) pairs, n = 1
\* included, the 3dfier workers build a configuration whose elevation dataset
\* list is the mapping's paths in mapping order, and go on to the process.
C19_DatasetListIsMappingPaths ==
    (entry \in YamlWorkers /\ Len(ahn_paths) >= 1 /\ Has("config")) =>
        /\ raised \notin {"TypeError", "IndexError"}
        /\ pc = "yml_path" =>
               yml[1].datasets = [i \in 1..Len(ahn_paths) |-> ahn_paths[i][1]]
        /\ (pc = "done" /\ output.dir) => Has("write")

----------------------------------------------------------------------------
\* The runner is a sequential program that keeps running: whenever its next
\* statement can be executed it eventually is.  Every statement moves pc;
\* the end of the external process does not, and nothing obliges the process
\* to end.
RunnerStep == Next /\ pc' # pc

\* The calls of Init on three dataset mappings: none, one entry, two entries.
InitFair ==
    /\ Init
    /\ ahn_paths \in {<<>>, <<<<"a.laz", 2>>>>, <<<<"a.laz", 2>>, <<"b.laz", 3>>>>}

SpecFair == InitFair /\ [][Next]_vars /\ WF_vars(RunnerStep)

\* run_subprocess started a process and has returned or raised.
ReturnedAfterSpawn == spawned > 0 /\ pc \in {"rs_exit", "finally", "done"}

\* C20: with execution enabled neither run_subprocess nor execute is back
\* while the process it started still runs, with or without a monitor: as
\* long as the process does not exit the runner stays blocked, and once the
\* process has exited the runner eventually returns.
C20_BlocksUntilProcessExits ==
    /\ [](ReturnedAfterSpawn => proc = "exited")
    /\ (proc = "exited") ~> (pc = "done")

C20_Witness ==
    /\ entry = "run_subprocess"
    /\ ~monitor
    /\ spawned = 1
    /\ proc = "exited"
    /\ pc = "done"
    /\ result = True

----------------------------------------------------------------------------
\* Executions for distinct tiles sharing one output directory.

\* Most tiles in execution at once.
NumTiles == 2

\* Tile identifiers (src/tests/test_tiles.py, line 37).
TileNames == <<"25gn1_6", "25gn1_7", "25gn1_10", "25gn1_11">>
Tiles == {TileNames[i] : i \in 1..NumTiles}

\* The variables of a single call.
callvars == <<entry, ahn_paths, output, arg_doexec, arg_shell, monitor, pc,
              wvars, rsvars, procvars, result, raised, counters, trace, pipes>>

\* No single call is followed.
NoCall ==
    /\ entry = None
    /\ ahn_paths = <<>>
    /\ output = [dir |-> TRUE, db |-> FALSE]
    /\ arg_doexec = TRUE
    /\ arg_shell = FALSE
    /\ monitor = FALSE
    /\ pc = "start"
    /\ yml = <<>>
    /\ fs = {}
    /\ shell = FALSE
    /\ doexec = TRUE
    /\ proc = "none"
    /\ exit_code = 0
    /\ pipe_err = <<>>
    /\ pipe_out = <<>>
    /\ pending = <<>>
    /\ stdout = <<>>
    /\ stderr = <<>>
    /\ return_code = <<>>
    /\ err = <<>>
    /\ out = <<>>
    /\ success = None
    /\ rs_exc = None
    /\ result = None
    /\ raised = None
    /\ spawned = 0
    /\ cycles = 0
    /\ records = 0
    /\ write_failed = FALSE
    /\ remove_failed = FALSE
    /\ trace = <<>>

\* Variant: one name for every tile.
yml_path_untiled(tile) == <<"tile", ".yml">>
\* Lines 206 and 329: tiles.output.dir.join_path(f"{tile}.yml")
yml_path_of(tile) == <<tile, ".yml">>

\* open(path, "w") and write: the file at path now holds content.
put(d, path, content) == {e \in d : e[1] # path} \cup {<<path, content>>}
\* os.remove(path)
removed(d, path) == {e \in d : e[1] # path}
\* What a reader of path finds.
content_at(d, path) ==
    IF \E e \in d : e[1] = path
    THEN (CHOOSE e \in d : e[1] = path)[2]
    ELSE "missing"

\* Each tile has datasets and an output directory, and is handed to one of
\* the 3dfier workers; nothing has run.
InitTiles ==
    /\ NoCall
    /\ executors = Registered
    /\ created = NotCalled
    /\ dir = {}
    /\ index = <<>>
    /\ dbtiles = NotConfigured
    /\ runs \in [Tiles -> {[worker |-> w, pc |-> "start", wrote |-> FALSE,
                            handed |-> <<>>, proc |-> "none", read |-> "unread",
                            result |-> None] : w \in YamlWorkers}]

\* Lines 203-211 / 323-335: the configuration of the tile is built and
\* written to its path; a failed write leaves the directory as it was or a
\* partial file.
tiles_write(t) ==
    /\ runs[t].pc = "start"
    /\ \/ /\ dir' = put(dir, yml_path_of(t), t)
          /\ runs' = [runs EXCEPT ![t].pc = "run", ![t].wrote = TRUE]
       \/ /\ dir' \in {dir, put(dir, yml_path_of(t), "partial")}
          /\ runs' = [runs EXCEPT ![t].pc = "run"]
    /\ UNCHANGED <<callvars, selection, executors, created>>

\* Lines 213-229 / 337-347 and 475: the command names the path, Popen starts
\* the process or raises.
tiles_spawn(t) ==
    /\ runs[t].pc = "run"
    /\ \/ runs' = [runs EXCEPT ![t].pc = "wait", ![t].proc = "running",
                               ![t].handed = yml_path_of(t)]
       \/ runs' = [runs EXCEPT ![t].pc = "finally", ![t].result = False]
    /\ UNCHANGED <<callvars, selection, executors, created, dir>>

\* The process of the tile reads the file it was handed and ends.
tiles_process(t) ==
    /\ runs[t].proc = "running"
    /\ runs' = [runs EXCEPT ![t].proc = "exited",
                            ![t].read = content_at(dir, runs[t].handed)]
    /\ UNCHANGED <<callvars, selection, executors, created, dir>>

\* Lines 486-501 and 230-233 / 348-351: run_subprocess returns after the
\* process has ended.
tiles_return(t) ==
    /\ runs[t].pc = "wait"
    /\ runs[t].proc = "exited"
    /\ \E r \in {True, False} :
           runs' = [runs EXCEPT ![t].pc = "finally", ![t].result = r]
    /\ UNCHANGED <<callvars, selection, executors, created, dir>>

\* Lines 234-238 / 352-356: os.remove of the tile's path, which may raise.
tiles_finally(t) ==
    /\ runs[t].pc = "finally"
    /\ runs' = [runs EXCEPT ![t].pc = "done"]
    /\ dir' \in {removed(dir, yml_path_of(t)), dir}
    /\ UNCHANGED <<callvars, selection, executors, created>>

NextTiles ==
    \/ \E t \in Tiles : tiles_write(t)
    \/ \E t \in Tiles : tiles_spawn(t)
    \/ \E t \in Tiles : tiles_process(t)
    \/ \E t \in Tiles : tiles_return(t)
    \/ \E t \in Tiles : tiles_finally(t)

SpecTiles == InitTiles /\ [][NextTiles]_vars

\* C12: with executions for distinct tiles interleaved in one directory,
\* from its write to the end of its own process each execution finds at its
\* path the file it wrote, the path handed to its process is its own, and
\* its process reads what it wrote: no other execution overwrites or
\* deletes it.
C12_OwnArtifactOnly ==
    \A t \in Tiles :
        /\ (runs[t].wrote /\ (runs[t].pc = "run" \/ runs[t].proc = "running")) =>
               content_at(dir, yml_path_of(t)) = t
        /\ runs[t].proc # "none" =>
               /\ runs[t].handed = yml_path_of(t)
               /\ \A u \in Tiles \ {t} : runs[t].handed # yml_path_of(u)
        /\ (runs[t].wrote /\ runs[t].proc = "exited") => runs[t].read = t

C12_Witness ==
    /\ \A t \in Tiles : runs[t].wrote /\ runs[t].proc = "exited"
                        /\ runs[t].read = t
    /\ \E t \in Tiles : runs[t].pc = "done"
    /\ \E t \in Tiles : runs[t].pc = "wait"

----------------------------------------------------------------------------
\* WorkerFactory, lines 34-58.

\* Most calls of register_worker.
MaxRegistrations == 3

Keys == {"Example", "3dfier", "LoD13"}
\* Workers are classes (docstring of register_worker); a class is truthy.
Classes == {"ExampleWorker", "ThreedfierWorker", "LoD13Worker"}

\* Line 42: self._executors = {}
InitFactory ==
    /\ NoCall
    /\ executors = <<>>
    /\ created = NotCalled
    /\ runs = <<>>
    /\ dir = {}
    /\ index = <<>>
    /\ dbtiles = NotConfigured

\* Variant: a key that is taken keeps its worker.
setdefault_item(d, key, worker) ==
    [k \in DOMAIN d \cup {key} |-> IF k \in DOMAIN d THEN d[k] ELSE worker]
\* Line 51: self._executors[key] = worker
set_item(d, key, worker) ==
    [k \in DOMAIN d \cup {key} |-> IF k = key THEN worker ELSE d[k]]

\* Line 55: self._executors.get(key)
dict_get(d, key) == IF key \in DOMAIN d THEN d[key] ELSE None

\* Variant: an unknown key gives None.
create_or_none(d, key) ==
    [key |-> key, exc |-> None, val |-> dict_get(d, key)]
\* Lines 55-58: the instance of the registered class, or ValueError(key).
create_outcome(d, key) ==
    LET worker == dict_get(d, key)
    IN  IF worker = None
        THEN [key |-> key, exc |-> "ValueError", val |-> None]
        ELSE [key |-> key, exc |-> None, val |-> worker]

\* WorkerFactory.register_worker; trace keeps the calls in order.
register_worker(key, worker) ==
    /\ Len(trace) < MaxRegistrations
    /\ executors' = set_item(executors, key, worker)
    /\ trace' = Append(trace, <<key, worker>>)
    /\ created' = NotCalled
    /\ UNCHANGED <<entry, ahn_paths, output, arg_doexec, arg_shell, monitor, pc,
                   wvars, rsvars, procvars, result, raised, counters, runs, dir,
                   selection, pipes>>

\* WorkerFactory.create
create(key) ==
    /\ created' = create_outcome(executors, key)
    /\ UNCHANGED <<callvars, selection, executors, runs, dir>>

NextFactory ==
    \/ \E key \in Keys, worker \in Classes : register_worker(key, worker)
    \/ \E key \in Keys : create(key)

SpecFactory == InitFactory /\ [][NextFactory]_vars

\* The calls of register_worker made for key, in order.
RegistrationsOf(key) == SelectSeq(trace, LAMBDA r : r[1] = key)
LastRegistered(key) == RegistrationsOf(key)[Len(RegistrationsOf(key))][2]

\* C14: whatever calls of register_worker came before, every one of them
\* took effect, and create(key) gives an instance of the class registered
\* last under that key.
C14_LastRegistrationWins ==
    /\ \A key \in Keys :
           Len(RegistrationsOf(key)) > 0 =>
               (key \in DOMAIN executors /\ executors[key] = LastRegistered(key))
    /\ (created.key # None /\ Len(RegistrationsOf(created.key)) > 0) =>
           (created.exc = None /\ created.val = LastRegistered(created.key))

C14_Witness ==
    /\ trace = <<<<"3dfier", "ExampleWorker">>, <<"LoD13", "LoD13Worker">>,
                 <<"3dfier", "ThreedfierWorker">>>>
    /\ created.key = "3dfier"
    /\ created.val = "ThreedfierWorker"

\* C15: create raises ValueError for the key, and gives no null result,
\* exactly when the key has no registration; for a registered key it gives
\* a worker.
C15_CreateRaisesIffUnregistered ==
    created.key # None =>
        /\ created.exc = "ValueError" <=> Len(RegistrationsOf(created.key)) = 0
        /\ created.exc \in {None, "ValueError"}
        /\ created.exc = None <=> created.val \in Classes
        /\ created.exc = "ValueError" => created.val = None

C15_Witness ==
    /\ Len(trace) = 2
    /\ created.key = "LoD13"
    /\ Len(RegistrationsOf("LoD13")) = 0
    /\ created.exc = "ValueError"

----------------------------------------------------------------------------
\* tileconfig.DBTiles: which tiles to process, from an extent or from a list.
\* A geometry is the set of unit cells it covers; a cell is <<column, row>>.

\* Longest list of requested tile identifiers.
MaxRequested == 3
\* Most features in an extent file.
MaxFeatures == 2

Cells == {<<1, 1>>, <<2, 1>>, <<1, 2>>, <<2, 2>>}

\* The four tiles of the test data, side by side, one cell each.
IndexRows ==
    << [unit |-> "25gn1_6", geom |-> {<<1, 1>>}],
       [unit |-> "25gn1_7", geom |-> {<<2, 1>>}],
       [unit |-> "25gn1_10", geom |-> {<<1, 2>>}],
       [unit |-> "25gn1_11", geom |-> {<<2, 2>>}] >>

RECURSIVE rows_at(_, _, _)
rows_at(rows, S, i) ==
    IF i > Len(rows) THEN <<>>
    ELSE (IF i \in S THEN <<rows[i]>> ELSE <<>>) \o rows_at(rows, S, i + 1)

\* The index holds any of the four tiles, or none.
Indexes == {rows_at(IndexRows, S, 1) : S \in SUBSET (1..Len(IndexRows))}

\* Polygons and multi-polygons.
Extents == (SUBSET Cells) \ {{}}
\* A file holds features; the ones used here: all four cells, and two
\* cells that touch only at a corner.
FileFeatures == {Cells, {<<1, 1>>, <<2, 2>>}}
ExtentFiles == SeqsUpTo(FileFeatures, MaxFeatures) \ {<<>>}

\* Identifiers a caller may ask for: three tiles of the test data and one
\* that is in no index.
RequestedIds == {"25gn1_10", "25gn1_11", "25gn1_6", "not_in_index"}
Requests == SeqsUpTo(RequestedIds, MaxRequested)

units(rows) == [i \in 1..Len(rows) |-> rows[i].unit]
elements(seq) == {seq[i] : i \in 1..Len(seq)}

\* Variant: the bounding boxes overlap.
bbox_intersects(a, b) ==
    LET lo(g, k) == CHOOSE m \in {c[k] : c \in g} : \A c \in g : m <= c[k]
        hi(g, k) == CHOOSE m \in {c[k] : c \in g} : \A c \in g : m >= c[k]
    IN  \A k \in 1..2 : lo(a, k) <= hi(b, k) /\ lo(b, k) <= hi(a, k)
\* The spatial predicate of the index query: the geometries share area.
intersects(a, b) == a \cap b # {}

\* DBTiles.within_extent: the units of the index rows whose geometry
\* intersects the extent, in the order of the rows.
within_extent(idx, extent) ==
    units(SelectSeq(idx, LAMBDA row : intersects(row.geom, extent)))

\* Variant: the requested list is taken as it is.
tiles_as_requested(idx, requested) == requested
\* DBTiles.tiles_in_index: the units of the index rows that are asked for.
tiles_in_index(idx, requested) ==
    units(SelectSeq(idx, LAMBDA row : row.unit \in elements(requested)))

\* DBTiles.read_extent: the one feature of the file.
read_extent(file) ==
    IF Len(file) = 1
    THEN [exc |-> None, val |-> file[1]]
    ELSE [exc |-> "ConfigurationError", val |-> {}]

\* Arguments left out are <<>>, arguments given are <<value>>.
given(arg) == Len(arg) = 1

failed(exc, queries) == [exc |-> exc, to_process |-> <<>>, queries |-> queries]

\* Variant: a list with no tile in the index gives nothing to process.
configure_empty_list(idx, extent, tiles) ==
    IF given(extent) = given(tiles) THEN failed("AttributeError", 0)
    ELSE IF given(extent)
    THEN LET poly == read_extent(extent[1])
         IN  IF poly.exc # None THEN failed(poly.exc, 0)
             ELSE [exc |-> None, to_process |-> within_extent(idx, poly.val),
                   queries |-> 1]
    ELSE [exc |-> None, to_process |-> tiles_in_index(idx, tiles[1]),
          queries |-> 1]
\* Variant: when both are given the extent is used.
configure_extent_first(idx, extent, tiles) ==
    IF ~given(extent) /\ ~given(tiles) THEN failed("AttributeError", 0)
    ELSE IF given(extent)
    THEN LET poly == read_extent(extent[1])
         IN  IF poly.exc # None THEN failed(poly.exc, 0)
             ELSE [exc |-> None, to_process |-> within_extent(idx, poly.val),
                   queries |-> 1]
    ELSE LET found == tiles_in_index(idx, tiles[1])
         IN  IF Len(found) = 0 THEN failed("AttributeError", 1)
             ELSE [exc |-> None, to_process |-> found, queries |-> 1]
\* DBTiles.configure(extent=None, tiles=None): exactly one of the two is
\* needed; then the tiles to process are those within the extent read from
\* the file, or those of the list that are in the index, and a list with
\* no tile in the index is refused.
configure_outcome(idx, extent, tiles) ==
    IF given(extent) = given(tiles) THEN failed("AttributeError", 0)
    ELSE IF given(extent)
    THEN LET poly == read_extent(extent[1])
         IN  IF poly.exc # None THEN failed(poly.exc, 0)
             ELSE [exc |-> None, to_process |-> within_extent(idx, poly.val),
                   queries |-> 1]
    ELSE LET found == tiles_in_index(idx, tiles[1])
         IN  IF Len(found) = 0 THEN failed("AttributeError", 1)
             ELSE [exc |-> None, to_process |-> found, queries |-> 1]

\* A DBTiles object is made over an index and one call is made on it.
InitDBTiles ==
    /\ NoCall
    /\ executors = <<>>
    /\ created = NotCalled
    /\ runs = <<>>
    /\ dir = {}
    /\ index \in Indexes
    /\ dbtiles = NotConfigured

DBTiles_configure(extent, tiles) ==
    /\ dbtiles.call = None
    /\ LET o == configure_outcome(index, extent, tiles)
       IN  dbtiles' = [call |-> "configure", extent |-> extent, tiles |-> tiles,
                       geom |-> <<>>, exc |-> o.exc,
                       to_process |-> o.to_process, returned |-> <<>>,
                       queries |-> o.queries]
    /\ UNCHANGED <<callvars, executors, created, runs, dir, index>>

DBTiles_within_extent(extent) ==
    /\ dbtiles.call = None
    /\ dbtiles' = [call |-> "within_extent", extent |-> <<>>, tiles |-> <<>>,
                   geom |-> <<extent>>, exc |-> None, to_process |-> <<>>,
                   returned |-> within_extent(index, extent), queries |-> 1]
    /\ UNCHANGED <<callvars, executors, created, runs, dir, index>>

DBTiles_tiles_in_index(requested) ==
    /\ dbtiles.call = None
    /\ dbtiles' = [call |-> "tiles_in_index", extent |-> <<>>,
                   tiles |-> <<requested>>, geom |-> <<>>, exc |-> None,
                   to_process |-> <<>>,
                   returned |-> tiles_in_index(index, requested), queries |-> 1]
    /\ UNCHANGED <<callvars, executors, created, runs, dir, index>>

NextDBTiles ==
    \/ \E extent \in {<<>>} \cup {<<f>> : f \in ExtentFiles},
          tiles \in {<<>>} \cup {<<r>> : r \in Requests} :
           DBTiles_configure(extent, tiles)
    \/ \E extent \in Extents : DBTiles_within_extent(extent)
    \/ \E requested \in Requests : DBTiles_tiles_in_index(requested)

SpecDBTiles == InitDBTiles /\ [][NextDBTiles]_vars

IndexIds == elements(units(index))

\* C16: configure given neither an extent nor a tile list, or given both,
\* fails with the configuration error and has made no query of the index;
\* a configure that went on to query the index was given exactly one.
C16_ExactlyOneOfExtentAndTiles ==
    dbtiles.call = "configure" =>
        /\ (Len(dbtiles.extent) = Len(dbtiles.tiles)) =>
               /\ dbtiles.exc = "AttributeError"
               /\ dbtiles.queries = 0
               /\ dbtiles.to_process = <<>>
        /\ (dbtiles.queries > 0 \/ dbtiles.exc = None) =>
               Len(dbtiles.extent) + Len(dbtiles.tiles) = 1

C16_Witness ==
    /\ dbtiles.call = "configure"
    /\ Len(dbtiles.extent) = 1
    /\ Len(dbtiles.tiles) = 1
    /\ Len(index) = 4
    /\ dbtiles.exc = "AttributeError"
    /\ dbtiles.queries = 0

\* C17: tiles_in_index gives exactly the requested identifiers that are in
\* the index, whatever duplicates and unknown identifiers the request has,
\* without an error; and given its own result it gives the same set.
C17_RestrictToIndex ==
    dbtiles.call = "tiles_in_index" =>
        /\ dbtiles.exc = None
        /\ elements(dbtiles.returned) = elements(dbtiles.tiles[1]) \cap IndexIds
        /\ elements(tiles_in_index(index, dbtiles.returned))
               = elements(dbtiles.returned)

C17_Witness ==
    /\ dbtiles.call = "tiles_in_index"
    /\ dbtiles.tiles = << <<"25gn1_6", "not_in_index", "25gn1_6">> >>
    /\ dbtiles.returned = <<"25gn1_6">>
    /\ Len(index) = 4

\* The tiles of the index whose footprint shares area with the geometry.
Intersecting(extent) ==
    {index[i].unit : i \in {j \in 1..Len(index) : index[j].geom \cap extent # {}}}

\* C18: within_extent, and configure with an extent through to_process,
\* give exactly the tiles whose footprint intersects the extent; when no
\* tile does, the empty result is given and no error.
C18_ExactlyTheIntersectingTiles ==
    /\ dbtiles.call = "within_extent" =>
           /\ dbtiles.exc = None
           /\ elements(dbtiles.returned) = Intersecting(dbtiles.geom[1])
    /\ ( /\ dbtiles.call = "configure"
         /\ Len(dbtiles.extent) = 1
         /\ Len(dbtiles.tiles) = 0
         /\ Len(dbtiles.extent[1]) = 1 ) =>
           /\ dbtiles.exc = None
           /\ elements(dbtiles.to_process) = Intersecting(dbtiles.extent[1][1])

C18_Witness ==
    /\ dbtiles.call = "configure"
    /\ dbtiles.extent = << <<{<<1, 1>>, <<2, 2>>}>> >>
    /\ Len(dbtiles.tiles) = 0
    /\ elements(units(index)) = {"25gn1_7", "25gn1_10"}
    /\ dbtiles.exc = None
    /\ dbtiles.to_process = <<>>

\* C21: configure given a tile list of which no identifier is in the index
\* fails with AttributeError and leaves no tiles to process; given a list
\* with a tile of the index it does not fail.
C21_NoRequestedTileInIndex ==
    ( /\ dbtiles.call = "configure"
      /\ Len(dbtiles.extent) = 0
      /\ Len(dbtiles.tiles) = 1 ) =>
        /\ (elements(dbtiles.tiles[1]) \cap IndexIds = {}) =>
               (dbtiles.exc = "AttributeError" /\ dbtiles.to_process = <<>>)
        /\ (elements(dbtiles.tiles[1]) \cap IndexIds # {}) =>
               (dbtiles.exc = None /\ Len(dbtiles.to_process) > 0)

C21_Witness ==
    /\ dbtiles.call = "configure"
    /\ Len(dbtiles.extent) = 0
    /\ dbtiles.tiles = << <<"not_in_index", "25gn1_6">> >>
    /\ elements(units(index)) = {"25gn1_7", "25gn1_10", "25gn1_11"}
    /\ dbtiles.exc = "AttributeError"
    /\ dbtiles.queries = 1

----------------------------------------------------------------------------
\* run_subprocess with the pipes of Popen(..., stderr=PIPE, stdout=PIPE).
\* pipe_out and pipe_err are here the bytes written and not yet read.  A
\* write to a full pipe blocks the process until the pipe is read.

\* Bytes a pipe holds before a write to it blocks.
PipeCapacity == 2
\* Most bytes a process writes.
MaxOutput == 3

Streams == {"out", "err"}
\* What a process writes, a byte at a time, in the order of its program.
Programs == SeqsUpTo(Streams, MaxOutput)

InitPipes ==
    /\ Init
    /\ entry = "run_subprocess"

\* Lines 471-476: Popen starts the process with both pipes, or raises.
pipes_popen ==
    /\ pc = "rs_popen"
    /\ \/ /\ proc' = "running"
          /\ pending' \in Programs
          /\ spawned' = spawned + 1
          /\ pc' = IF monitor THEN "rs_sleep" ELSE "rs_communicate"
          /\ trace' = Append(trace, "spawn")
          /\ UNCHANGED rs_exc
       \/ /\ rs_exc' = "OSError"
          /\ pc' = "rs_exit"
          /\ UNCHANGED <<proc, pending, spawned, trace>>
    /\ UNCHANGED <<callargs, stdout, stderr, wvars, shell, doexec, return_code,
                   err, out, success, exit_code, pipe_err, pipe_out, result,
                   raised, cycles, records>>

\* Lines 479-482: one record to monitor_log (the records are not counted
\* here).
pipes_sample ==
    /\ pc = "rs_sample"
    /\ pc' = "rs_poll"
    /\ UNCHANGED <<inputs, wvars, rsvars, procvars, result, raised, counters, trace>>

\* Lines 483-485: popen.poll(), and the break (the passes are not counted
\* here).
pipes_poll ==
    /\ pc = "rs_poll"
    /\ return_code' = IF proc = "exited" THEN <<exit_code>> ELSE <<>>
    /\ pc' = IF loop_exit(return_code') THEN "rs_communicate" ELSE "rs_sleep"
    /\ UNCHANGED <<inputs, wvars, shell, doexec, err, out, success, rs_exc,
                   procvars, result, raised, counters, trace>>

\* Line 486: popen.communicate() reads what is on the two pipes ...
pipes_communicate_read ==
    /\ pc = "rs_communicate"
    /\ pipe_out # <<>> \/ pipe_err # <<>>
    /\ stdout' = stdout \o pipe_out
    /\ stderr' = stderr \o pipe_err
    /\ pipe_out' = <<>>
    /\ pipe_err' = <<>>
    /\ UNCHANGED <<callargs, pending, pc, wvars, rsvars, proc, exit_code, result,
                   raised, counters, trace>>

\* ... and returns at their end, when the process has exited.
pipes_communicate_return ==
    /\ pc = "rs_communicate"
    /\ proc = "exited"
    /\ pipe_out = <<>> /\ pipe_err = <<>>
    /\ pc' = "rs_decode"
    /\ trace' = Append(trace, "communicate")
    /\ UNCHANGED <<inputs, wvars, rsvars, procvars, result, raised, counters>>

\* Lines 487-489: decode stderr, then stdout.
pipes_decode ==
    /\ pc = "rs_decode"
    /\ LET e == decode(stderr)
           o == decode(stdout)
       IN  IF e.exc # None
           THEN rs_exc' = e.exc /\ pc' = "rs_exit" /\ UNCHANGED <<err, out>>
           ELSE IF o.exc # None
                THEN rs_exc' = o.exc /\ pc' = "rs_exit" /\ err' = e.val
                     /\ UNCHANGED out
                ELSE err' = e.val /\ out' = o.val /\ pc' = "rs_classify"
                     /\ UNCHANGED rs_exc
    /\ UNCHANGED <<inputs, wvars, shell, doexec, return_code, success, procvars,
                   result, raised, counters, trace>>

\* The pipe the next write of the process goes to has no room.
Blocked ==
    /\ proc = "running"
    /\ pending # <<>>
    /\ Len(IF Head(pending) = "out" THEN pipe_out ELSE pipe_err) >= PipeCapacity

\* The process writes its next byte (the letter x) when the pipe has room.
process_write ==
    /\ proc = "running"
    /\ pending # <<>>
    /\ ~Blocked
    /\ IF Head(pending) = "out"
       THEN pipe_out' = Append(pipe_out, 120) /\ UNCHANGED pipe_err
       ELSE pipe_err' = Append(pipe_err, 120) /\ UNCHANGED pipe_out
    /\ pending' = Tail(pending)
    /\ UNCHANGED <<callargs, stdout, stderr, pc, wvars, rsvars, proc, exit_code,
                   result, raised, counters, trace>>

\* The process ends when it has written all it had to write.
process_exit_written ==
    /\ proc = "running"
    /\ pending = <<>>
    /\ proc' = "exited"
    /\ exit_code' \in ExitCodes
    /\ trace' = Append(trace, "exit")
    /\ UNCHANGED <<inputs, pc, wvars, rsvars, pipe_err, pipe_out, result, raised,
                   counters>>

RunnerStepPipes ==
    \/ run_subprocess_call
    \/ run_subprocess_doexec
    \/ pipes_popen
    \/ run_subprocess_sleep
    \/ pipes_sample
    \/ pipes_poll
    \/ pipes_communicate_read
    \/ pipes_communicate_return
    \/ pipes_decode
    \/ run_subprocess_classify
    \/ run_subprocess_return

ProcessStep ==
    \/ process_write
    \/ process_exit_written

NextPipes ==
    \/ RunnerStepPipes
    \/ ProcessStep

\* The runner takes its next statement when it can; the process writes when
\* the pipe has room and ends when it has written everything.
SpecPipes ==
    InitPipes /\ [][NextPipes]_vars /\ WF_vars(RunnerStepPipes) /\ WF_vars(ProcessStep)

\* The polling loop of lines 477-485.
InLoop == pc \in {"rs_sleep", "rs_sample", "rs_poll"}

\* C22 as claimed: with a monitor the process is never blocked on a full
\* pipe while the polling loop waits for its exit, and run_subprocess
\* returns for every process started, however much it writes.
C22_ReturnsWhateverTheOutput ==
    /\ [](~(InLoop /\ Blocked))
    /\ (proc = "running") ~> (pc = "done")

====
